---- MODULE Spec2Model ----
(***************************************************************************)
(* Model of libs/smarthttp: Client.Do and its middleware (Singleflight,    *)
(* CircuitBreaker, Retries) around one http.Client.Do round trip.          *)
(***************************************************************************)
EXTENDS Integers, Sequences, FiniteSets, TLC

----------------------------------------------------------------------------
\* Bounds of the model

\* largest MaxAttempts a client is configured with
MaxConfigured == 3
\* longest request body, in bytes
BodyLen == 2
\* the request volume the breaker asks for before it judges the error rate
RequestVolumeThreshold == 1

----------------------------------------------------------------------------
\* Program constants

defaultMaxAttempts == 3

\* durations are in milliseconds
defaultBaseRetryDelay == 10

defaultMaxRetryDelay == 1000

defaultTimeout == 3000

defaultConnectTimeout == 1000

defaultErrorThreshold == 80

minErrorThreshold == 50

\* hystrix.DefaultMaxConcurrent
defaultMaxConcurrentRequests == 10

----------------------------------------------------------------------------
\* Errors.  An error value is its name, the set of sentinels errors.Is finds
\* in its chain, what its Timeout() method answers (FALSE when it has none)
\* and whether errors.As finds a *url.Error in its chain.

Sentinel(n) == [name |-> n, chain |-> {n}, timeout |-> FALSE, url |-> FALSE]

NilErr == [name |-> "nil", chain |-> {}, timeout |-> FALSE, url |-> FALSE]

ErrConnectTimeout == Sentinel("ErrConnectTimeout")

ErrConnection == Sentinel("ErrConnection")

ErrTimeout == Sentinel("ErrTimeout")

errRetryImpossible == Sentinel("errRetryImpossible")

errRetryAllowed == Sentinel("errRetryAllowed")

ErrAttemptsExceeded == Sentinel("ErrAttemptsExceeded")

errTrackableStatusCodeError == Sentinel("errTrackableStatusCodeError")

ErrCircuitIsOpen == Sentinel("ErrCircuitIsOpen")

ErrCircuitMaxConcurrencyReached == Sentinel("ErrCircuitMaxConcurrencyReached")

ErrCircuitTimeout == Sentinel("ErrCircuitTimeout")

\* hystrix.ErrCircuitOpen, hystrix.ErrMaxConcurrency, hystrix.ErrTimeout
hystrixErrCircuitOpen == Sentinel("hystrix: circuit open")

hystrixErrMaxConcurrency == Sentinel("hystrix: max concurrency")

hystrixErrTimeout == Sentinel("hystrix: timeout")

\* errors.Is(err, target)
Is(err, target) == target.name \in err.chain

\* fmt.Errorf("%w ...", sentinel, cause): only the %w operand stays in the chain
Wrapf(sentinel, cause) ==
    [name |-> sentinel.name \o " - " \o cause.name, chain |-> sentinel.chain,
     timeout |-> FALSE, url |-> FALSE]

\* context.DeadlineExceeded and context.Canceled
DeadlineExceeded == [name |-> "DeadlineExceeded", chain |-> {"DeadlineExceeded"}, timeout |-> TRUE, url |-> FALSE]

Canceled == Sentinel("Canceled")

\* ctx.Err() of a request context that is done
CtxErr(state) == IF state = "expired" THEN DeadlineExceeded ELSE Canceled

\* the error of a body stream whose Read fails
errBodyRead == [name |-> "body read error", chain |-> {}, timeout |-> FALSE, url |-> FALSE]

\* net/http errors that wrap nothing: Client.Timeout exceeded, a broken
\* connection, the redirect policy's refusal
errClientTimeout == [name |-> "Client.Timeout exceeded", chain |-> {}, timeout |-> TRUE, url |-> FALSE]

errTransport == [name |-> "transport error", chain |-> {}, timeout |-> FALSE, url |-> FALSE]

errRedirect == [name |-> "stopped after 10 redirects", chain |-> {}, timeout |-> FALSE, url |-> FALSE]

\* *url.Error around cause: errors.Is sees through it, Timeout() asks the cause
UrlError(cause) ==
    [name |-> "url.Error: " \o cause.name, chain |-> cause.chain,
     timeout |-> cause.timeout, url |-> TRUE]

----------------------------------------------------------------------------
\* Responses.  A response is its status code and the network attempt that
\* produced it; NilResp is the nil *http.Response.

NilResp == [status |-> 0, attempt |-> 0]

Response(code, n) == [status |-> code, attempt |-> n]

\* status codes the destination answers with
RetriableCodes == {408, 500, 503, 504}

Statuses == {200, 301} \cup (400..431) \cup {451} \cup (500..511)

----------------------------------------------------------------------------
\* Request bodies.  A body is nil, a stream that still holds `data`, or a
\* stream whose Read fails.

FullBody == [n \in 1..BodyLen |-> n]

NilBody == [kind |-> "nil", data |-> <<>>]

Stream(bytes) == [kind |-> "ok", data |-> bytes]

BadBody == [kind |-> "bad", data |-> <<>>]

\* the rest of a stream after k of its bytes were read
ReadBytes(body, k) ==
    IF body.kind = "ok"
    THEN [body EXCEPT !.data = SubSeq(body.data, k + 1, Len(body.data))]
    ELSE body

----------------------------------------------------------------------------
\* The network.  What one round trip ends in: a failure of the dial, or,
\* once connected, a response or a failure of the exchange.

DialFailures == {"dialTimeout", "dialNetError", "dialError"}

ExchangeFailures == {"clientTimeout", "ctxDeadline", "ctxCanceled", "broken"}

Outcomes ==
    [kind : {"status"}, status : Statuses]
        \cup [kind : DialFailures \cup ExchangeFailures, status : {0}]
        \cup [kind : {"redirect"}, status : {301}]

\* DialContext handing back the dialer's error as it got it: for a dial that
\* timed out, a net.Error whose Timeout() is true
DialContextPlain(kind) ==
    CASE kind = "dialTimeout" ->
            [name |-> "dial: i/o timeout", chain |-> {}, timeout |-> TRUE, url |-> FALSE]
      [] OTHER -> errTransport

\* the DialContext of GetTransportWithCustomDialer: the error it returns
\* for a failed dial
DialContext(kind) ==
    CASE kind = "dialTimeout" -> ErrConnectTimeout
      [] kind = "dialNetError" -> Wrapf(ErrConnection, errTransport)
      [] OTHER -> errTransport

\* c.getClient().Do(req): what the standard client returns for an outcome of
\* the n-th round trip
HttpClientDo(o, n) ==
    CASE o.kind = "status" -> [resp |-> Response(o.status, n), err |-> NilErr]
      [] o.kind \in DialFailures -> [resp |-> NilResp, err |-> UrlError(DialContext(o.kind))]
      [] o.kind = "clientTimeout" -> [resp |-> NilResp, err |-> UrlError(errClientTimeout)]
      [] o.kind = "ctxDeadline" -> [resp |-> NilResp, err |-> UrlError(DeadlineExceeded)]
      [] o.kind = "ctxCanceled" -> [resp |-> NilResp, err |-> UrlError(Canceled)]
      [] o.kind = "redirect" -> [resp |-> Response(o.status, n), err |-> UrlError(errRedirect)]
      [] OTHER -> [resp |-> NilResp, err |-> UrlError(errTransport)]

\* doRequestFunc taking every *url.Error for a timeout
doRequestFuncAnyUrlError(got) ==
    IF got.err # NilErr
    THEN CASE got.err.url ->
                [resp |-> got.resp, err |-> Wrapf(ErrTimeout, got.err),
                 calls |-> {<<"BaseDoDuration", 0>>, <<"BaseDoErr:timeout", 0>>}]
           [] OTHER ->
                [resp |-> got.resp, err |-> got.err,
                 calls |-> {<<"BaseDoDuration", 0>>, <<"BaseDoErr:na", 0>>}]
    ELSE [resp |-> got.resp, err |-> NilErr,
          calls |-> {<<"BaseDoDuration", got.resp.status>>}]

\* the base request closure of Client.Do, after c.getClient().Do returned
\* got: the pair it returns and the Instrumentation calls it makes
doRequestFunc(got) ==
    IF got.err # NilErr
    THEN CASE got.err.url /\ got.err.timeout ->
                [resp |-> got.resp, err |-> Wrapf(ErrTimeout, got.err),
                 calls |-> {<<"BaseDoDuration", 0>>, <<"BaseDoErr:timeout", 0>>}]
           [] Is(got.err, DeadlineExceeded) ->
                [resp |-> got.resp, err |-> got.err,
                 calls |-> {<<"BaseDoDuration", 0>>, <<"BaseDoErr:ctxTimeout", 0>>}]
           [] Is(got.err, Canceled) ->
                [resp |-> got.resp, err |-> got.err,
                 calls |-> {<<"BaseDoDuration", 0>>, <<"BaseDoErr:ctxCanceled", 0>>}]
           [] OTHER ->
                [resp |-> got.resp, err |-> got.err,
                 calls |-> {<<"BaseDoDuration", 0>>, <<"BaseDoErr:na", 0>>}]
    ELSE [resp |-> got.resp, err |-> NilErr,
          calls |-> {<<"BaseDoDuration", got.resp.status>>}]

----------------------------------------------------------------------------
\* Retries

\* getMaxAttempts with the comparison off by one
getMaxAttemptsOffByOne(MaxAttempts) ==
    IF MaxAttempts > 1 THEN MaxAttempts ELSE defaultMaxAttempts

getMaxAttempts(MaxAttempts) ==
    IF MaxAttempts > 0 THEN MaxAttempts ELSE defaultMaxAttempts

\* getBaseDelay handing on whatever is configured
getBaseDelayUnchecked(BaseDelay) == [value |-> BaseDelay, warnings |-> {}]

getBaseDelay(BaseDelay) ==
    IF BaseDelay > 0
    THEN [value |-> BaseDelay, warnings |-> {}]
    ELSE [value |-> defaultBaseRetryDelay,
          warnings |-> {"using default 'base retry delay' setting for retries"}]

getMaxDelay(MaxDelay) ==
    IF MaxDelay > 0
    THEN [value |-> MaxDelay, warnings |-> {}]
    ELSE [value |-> defaultMaxRetryDelay,
          warnings |-> {"using default 'max retry delay' setting for retries"}]

\* cloneRequest: reads what is left of req.Body into a buffer, gives req and
\* the clone a reader each over those bytes
cloneRequest(body) ==
    CASE body.kind = "nil" -> [err |-> NilErr, req |-> body, clone |-> body]
      [] body.kind = "bad" -> [err |-> errBodyRead, req |-> body, clone |-> body]
      [] OTHER -> [err |-> NilErr, req |-> Stream(body.data), clone |-> Stream(body.data)]

\* the status codes of the first case of the switch in buildMiddleware
NonRetriableCodes ==
    {400, 401, 402, 403, 404, 405, 406, 407, 410, 411, 412, 413, 414, 415, 416,
     417, 418, 421, 422, 423, 424, 425, 426, 428, 429, 431, 451, 501, 502, 505,
     506, 507, 508, 510, 511}

\* retryClosure with 503 missing from the retriable case
retryClosureNo503(ret) ==
    IF ret.err # NilErr
    THEN IF Is(ret.err, ErrTimeout)
         THEN [resp |-> ret.resp, innerErr |-> ret.err, err |-> errRetryAllowed,
               calls |-> {<<"RetryRetriable", 666>>}]
         ELSE [resp |-> ret.resp, innerErr |-> ret.err, err |-> ret.err, calls |-> {}]
    ELSE CASE ret.resp.status \in NonRetriableCodes ->
                [resp |-> ret.resp, innerErr |-> NilErr, err |-> errRetryImpossible,
                 calls |-> {<<"RetryNonRetriable", ret.resp.status>>}]
           [] ret.resp.status \in {408, 500, 504} ->
                [resp |-> ret.resp, innerErr |-> NilErr, err |-> errRetryAllowed,
                 calls |-> {<<"RetryRetriable", ret.resp.status>>}]
           [] OTHER ->
                [resp |-> ret.resp, innerErr |-> NilErr, err |-> NilErr, calls |-> {}]

\* retryClosure with 429 in the retriable case
retryClosureRetry429(ret) ==
    IF ret.err # NilErr
    THEN IF Is(ret.err, ErrTimeout)
         THEN [resp |-> ret.resp, innerErr |-> ret.err, err |-> errRetryAllowed,
               calls |-> {<<"RetryRetriable", 666>>}]
         ELSE [resp |-> ret.resp, innerErr |-> ret.err, err |-> ret.err, calls |-> {}]
    ELSE CASE ret.resp.status \in NonRetriableCodes \ {429} ->
                [resp |-> ret.resp, innerErr |-> NilErr, err |-> errRetryImpossible,
                 calls |-> {<<"RetryNonRetriable", ret.resp.status>>}]
           [] ret.resp.status \in {408, 429, 500, 503, 504} ->
                [resp |-> ret.resp, innerErr |-> NilErr, err |-> errRetryAllowed,
                 calls |-> {<<"RetryRetriable", ret.resp.status>>}]
           [] OTHER ->
                [resp |-> ret.resp, innerErr |-> NilErr, err |-> NilErr, calls |-> {}]

\* the function handed to retrier.Do, from the return of doFunc on: the
\* closure's resp and innerErr, the error it returns to the retrier and the
\* Instrumentation calls it makes
retryClosure(ret) ==
    IF ret.err # NilErr
    THEN IF Is(ret.err, ErrTimeout)
         THEN [resp |-> ret.resp, innerErr |-> ret.err, err |-> errRetryAllowed,
               calls |-> {<<"RetryRetriable", 666>>}]
         ELSE [resp |-> ret.resp, innerErr |-> ret.err, err |-> ret.err, calls |-> {}]
    ELSE CASE ret.resp.status \in NonRetriableCodes ->
                [resp |-> ret.resp, innerErr |-> NilErr, err |-> errRetryImpossible,
                 calls |-> {<<"RetryNonRetriable", ret.resp.status>>}]
           [] ret.resp.status \in {408, 500, 503, 504} ->
                [resp |-> ret.resp, innerErr |-> NilErr, err |-> errRetryAllowed,
                 calls |-> {<<"RetryRetriable", ret.resp.status>>}]
           [] OTHER ->
                [resp |-> ret.resp, innerErr |-> NilErr, err |-> NilErr, calls |-> {}]

\* retry.Client.CanRetry as set by doInitOnce
CanRetry(err) == Is(err, errRetryAllowed)

\* retryReturn handing back innerErr in the default case too
retryReturnDropsErr(err, resp, innerErr) ==
    CASE Is(err, ErrTimeout) \/ Is(err, DeadlineExceeded) ->
            [resp |-> NilResp, err |-> err]
      [] OTHER -> [resp |-> resp, err |-> innerErr]

\* retryReturn handing back the retrier's error in the second case
retryReturnLeaks(err, resp, innerErr) ==
    CASE Is(err, ErrTimeout) \/ Is(err, DeadlineExceeded) ->
            [resp |-> NilResp, err |-> err]
      [] OTHER -> [resp |-> resp, err |-> err]

\* the switch after retrier.Do returned err: what buildMiddleware returns
retryReturn(err, resp, innerErr) ==
    CASE Is(err, ErrTimeout) \/ Is(err, DeadlineExceeded) ->
            [resp |-> NilResp, err |-> err]
      [] Is(err, errRetryImpossible) \/ Is(err, errRetryAllowed) \/ Is(err, ErrAttemptsExceeded) ->
            [resp |-> resp, err |-> innerErr]
      [] OTHER -> [resp |-> resp, err |-> err]

\* retry.Client.Do, after the function returned err on its n-th call: the
\* error Do returns, or "again" when it waits for the next attempt
retrierAfter(err, n, MaxAttempts, ctxState) ==
    CASE err = NilErr -> NilErr
      [] ~CanRetry(err) -> err
      [] n >= MaxAttempts -> ErrAttemptsExceeded
      [] ctxState # "live" -> CtxErr(ctxState)
      [] OTHER -> [name |-> "again", chain |-> {}, timeout |-> FALSE, url |-> FALSE]

Min(a, b) == IF a <= b THEN a ELSE b

\* retry.Client: the wait after the n-th attempt, which grows from BaseDelay
\* by doubling and is capped at MaxDelay
backoffDelay(n, BaseDelay, MaxDelay) == Min(BaseDelay * 2 ^ (n - 1), MaxDelay)

----------------------------------------------------------------------------
\* State

Calls == 1..2

Methods == {"GET", "HEAD", "POST"}

VARIABLES
    Client,       \* the Client's own fields: [Name, Timeout, ConnectTimeout, Client]
    Retries,      \* Client.Retries: [nil, MaxAttempts, BaseDelay, MaxDelay]
    retrier,      \* Retries.retrier, set by doInitOnce: [MaxAttempts, BaseDelay, MaxDelay]
    Singleflight, \* Client.Singleflight: [nil, KeyGenerator]
    CircuitBreaker, \* Client.CircuitBreaker: [ErrorPercentThreshold, MaxConcurrentRequests]
    settings,     \* the hystrix command as configured by doInitOnce
    once,         \* Client.clientInitOnce: "fresh", "running", "done"
    warnings,     \* the InitWarning calls made
    method,       \* the method of each call's request
    role,         \* each call in the singleflight group: "none", "leader", "waiter"
    flight,       \* singleflight.Group: the call in flight for each key, 0 for none
    open,         \* hystrix: the circuit is open
    trial,        \* hystrix: the call let through an open circuit as a test, 0 for none
    sleepElapsed, \* hystrix: the sleep window passed since the circuit opened or tested
    requests,     \* hystrix: requests counted in the rolling window
    errors,       \* hystrix: errors counted in the rolling window
    ticket,       \* hystrix: the calls that hold a ticket of the executor pool
    pc,           \* where each call is
    ctx,          \* the request context of each call: "live", "canceled", "expired"
    remote,       \* what the destination will answer to each call
    body,         \* the Body of the request the caller passed
    req,          \* the Body of the closure's req
    reqClone,     \* the Body of the closure's reqClone
    isFirstTry,
    resp,         \* the closure's resp
    innerErr,     \* the closure's innerErr
    delay,        \* the wait the retrier last began for the call, 0 for none
    attempts,     \* round trips started for each call
    sent,         \* the body bytes the last round trip was started with
    drained,      \* whether a round trip of the call read its body to the end
    outcome,      \* how the last round trip ended
    ret,          \* the pair the innermost returned layer handed back
    events,       \* the Instrumentation calls made for each call
    origin,       \* the call whose execution made the result a call was handed, 0 for its own
    bodyGot       \* what the caller read from the body of the response: "unread", "full", "empty"

cfgVars == <<Client, Retries, retrier, Singleflight, CircuitBreaker, settings, once, warnings>>

sfVars == <<method, role, flight>>

cbVars == <<open, trial, sleepElapsed, requests, errors, ticket>>

pipeVars == <<sfVars, cbVars>>

reqVars == <<body, req, reqClone, isFirstTry>>

closureVars == <<resp, innerErr, delay>>

netVars == <<attempts, sent, drained, outcome>>

respVars == <<origin, bodyGot>>

vars == <<cfgVars, pipeVars, pc, ctx, remote, reqVars, closureVars, netVars, ret, events, respVars>>

Pair(r, e) == [resp |-> r, err |-> e]

Free == [scripted |-> FALSE, code |-> 0, n |-> 0]

Script(code, n) == [scripted |-> TRUE, code |-> code, n |-> n]

NoOutcome == [kind |-> "none", status |-> 0]

Names(calls) == {x[1] : x \in calls}

----------------------------------------------------------------------------
\* The request context is cancelled by the caller or its deadline passes

CtxDone(c, how) ==
    /\ pc[c] \in {"sf_wait", "retrier", "net", "backoff"}
    /\ ctx[c] = "live"
    /\ ctx' = [ctx EXCEPT ![c] = how]
    /\ UNCHANGED <<respVars, cfgVars, pipeVars, pc, remote, reqVars, closureVars, netVars, ret, events>>

----------------------------------------------------------------------------
\* Retries.buildMiddleware

\* entry: the first cloneRequest
RetryEnter(c) ==
    /\ pc[c] = "retry"
    /\ LET cl == cloneRequest(body[c]) IN
        IF cl.err # NilErr
        THEN /\ ret' = [ret EXCEPT ![c] = Pair(NilResp, cl.err)]
             /\ pc' = [pc EXCEPT ![c] = "retry_ret"]
             /\ UNCHANGED <<reqVars, closureVars>>
        ELSE /\ req' = [req EXCEPT ![c] = cl.req]
             /\ reqClone' = [reqClone EXCEPT ![c] = cl.clone]
             /\ isFirstTry' = [isFirstTry EXCEPT ![c] = TRUE]
             /\ resp' = [resp EXCEPT ![c] = NilResp]
             /\ innerErr' = [innerErr EXCEPT ![c] = NilErr]
             /\ delay' = [delay EXCEPT ![c] = 0]
             /\ pc' = [pc EXCEPT ![c] = "retrier"]
             /\ UNCHANGED <<ret, body>>
    /\ UNCHANGED <<respVars, cfgVars, pipeVars, ctx, remote, netVars, events>>

\* nextRequest without the swap to the clone: every attempt reuses req
nextRequestNoSwap(first, reqBody, cloneBody) ==
    [err |-> NilErr, req |-> reqBody, clone |-> cloneBody]

\* the body the closure's req has when doFunc is called, and the clone kept
\* for the next attempt
nextRequest(first, reqBody, cloneBody) ==
    IF first
    THEN [err |-> NilErr, req |-> reqBody, clone |-> cloneBody]
    ELSE cloneRequest(cloneBody)

\* retrier.Do calls the function: the context is checked, the closure swaps
\* in the clone and calls doFunc
RetrierCall(c) ==
    /\ pc[c] = "retrier"
    /\ IF ctx[c] # "live"
       THEN /\ ret' = [ret EXCEPT ![c] = retryReturn(CtxErr(ctx[c]), resp[c], innerErr[c])]
            /\ pc' = [pc EXCEPT ![c] = "retry_ret"]
            /\ UNCHANGED <<reqVars, netVars>>
       ELSE LET nx == nextRequest(isFirstTry[c], req[c], reqClone[c]) IN
            /\ isFirstTry' = [isFirstTry EXCEPT ![c] = FALSE]
            /\ req' = [req EXCEPT ![c] = nx.req]
            /\ reqClone' = [reqClone EXCEPT ![c] = nx.clone]
            /\ IF nx.err # NilErr
               THEN /\ ret' = [ret EXCEPT ![c] = retryReturn(nx.err, resp[c], innerErr[c])]
                    /\ pc' = [pc EXCEPT ![c] = "retry_ret"]
                    /\ UNCHANGED netVars
               ELSE /\ attempts' = [attempts EXCEPT ![c] = @ + 1]
                    /\ sent' = [sent EXCEPT ![c] = nx.req.data]
                    /\ pc' = [pc EXCEPT ![c] = "net"]
                    /\ UNCHANGED <<ret, drained, outcome>>
            /\ UNCHANGED body
    /\ UNCHANGED <<respVars, cfgVars, pipeVars, ctx, remote, closureVars, events>>

\* the function returned: the closure classifies what doFunc gave, the
\* retrier returns or waits, buildMiddleware maps the retrier's error
RetryHandle(c) ==
    /\ pc[c] = "base_ret"
    /\ ~Retries.nil
    /\ LET cl == retryClosure(ret[c])
           r == retrierAfter(cl.err, attempts[c], retrier.MaxAttempts, ctx[c])
       IN
        /\ resp' = [resp EXCEPT ![c] = cl.resp]
        /\ innerErr' = [innerErr EXCEPT ![c] = cl.innerErr]
        /\ events' = [events EXCEPT ![c] = @ \cup Names(cl.calls)]
        /\ IF r.name = "again"
           THEN /\ pc' = [pc EXCEPT ![c] = "backoff"]
                /\ delay' = [delay EXCEPT ![c] =
                        backoffDelay(attempts[c], retrier.BaseDelay, retrier.MaxDelay)]
                /\ UNCHANGED ret
           ELSE /\ pc' = [pc EXCEPT ![c] = "retry_ret"]
                /\ ret' = [ret EXCEPT ![c] = retryReturn(r, cl.resp, cl.innerErr)]
                /\ UNCHANGED delay
    /\ UNCHANGED <<respVars, cfgVars, pipeVars, ctx, remote, reqVars, netVars>>

\* the wait between two attempts ends
BackoffElapsed(c) ==
    /\ pc[c] = "backoff"
    /\ pc' = [pc EXCEPT ![c] = "retrier"]
    /\ UNCHANGED <<respVars, cfgVars, pipeVars, ctx, remote, reqVars, closureVars, netVars, ret, events>>

\* the context ends the wait between two attempts
BackoffCancelled(c) ==
    /\ pc[c] = "backoff"
    /\ ctx[c] # "live"
    /\ ret' = [ret EXCEPT ![c] = retryReturn(CtxErr(ctx[c]), resp[c], innerErr[c])]
    /\ pc' = [pc EXCEPT ![c] = "retry_ret"]
    /\ UNCHANGED <<respVars, cfgVars, pipeVars, ctx, remote, reqVars, closureVars, netVars, events>>

----------------------------------------------------------------------------
\* The base request of Client.Do

\* the outcomes the destination and the context of call c allow
Allowed(c, o) ==
    /\ o.kind = "ctxDeadline" => ctx[c] = "expired"
    /\ o.kind = "ctxCanceled" => ctx[c] = "canceled"
    /\ remote[c].scripted =>
        o = IF attempts[c] <= remote[c].n
            THEN [kind |-> "status", status |-> remote[c].code]
            ELSE [kind |-> "status", status |-> 200]

\* the round trip ends in o after the transport read k bytes of the body
BaseReturn(c, o, k) ==
    /\ pc[c] = "net"
    /\ Allowed(c, o)
    /\ k <= Len(req[c].data)
    /\ LET r == doRequestFunc(HttpClientDo(o, attempts[c])) IN
        /\ ret' = [ret EXCEPT ![c] = Pair(r.resp, r.err)]
        /\ events' = [events EXCEPT ![c] = @ \cup Names(r.calls)]
    /\ req' = [req EXCEPT ![c] = ReadBytes(@, k)]
    /\ drained' = [drained EXCEPT ![c] = @ \/ (k > 0 /\ k = Len(req[c].data))]
    /\ outcome' = [outcome EXCEPT ![c] = o]
    /\ pc' = [pc EXCEPT ![c] = "base_ret"]
    /\ UNCHANGED <<respVars, cfgVars, pipeVars, ctx, remote, body, reqClone, isFirstTry, closureVars, attempts, sent>>

----------------------------------------------------------------------------
\* One call of the retry middleware around the base request

Bodies == {NilBody, BadBody} \cup {Stream(SubSeq(FullBody, 1, n)) : n \in 0..BodyLen}

Remotes == {Free} \cup {Script(code, n) : code \in RetriableCodes, n \in 0..MaxConfigured}

DefaultSFKeyGenerator(m, url) == m \o "||" \o url

Keys == {DefaultSFKeyGenerator(m, "/") : m \in Methods} \cup {"/"}

\* the http.Client of buildClient
buildClient(timeout, connectTimeout) ==
    [nil |-> FALSE, Timeout |-> timeout, ConnectTimeout |-> connectTimeout]

\* the http.Client a Client starts without
NilClient == [nil |-> TRUE, Timeout |-> 0, ConnectTimeout |-> 0]

\* a Client with a name and nothing else of its own set
NamedClient == [Name |-> "shop", Timeout |-> 0, ConnectTimeout |-> 0, Client |-> NilClient]

\* a Client after doInitOnce
InitializedClient ==
    [Name |-> "shop", Timeout |-> defaultTimeout, ConnectTimeout |-> defaultConnectTimeout,
     Client |-> buildClient(defaultTimeout, defaultConnectTimeout)]

\* the retrier doInitOnce builds for the Retries r
newRetrier(r) ==
    [MaxAttempts |-> getMaxAttempts(r.MaxAttempts),
     BaseDelay |-> getBaseDelay(r.BaseDelay).value,
     MaxDelay |-> getMaxDelay(r.MaxDelay).value]

RetrierBuilt ==
    /\ Singleflight = [nil |-> TRUE, KeyGenerator |-> FALSE]
    /\ CircuitBreaker = [ErrorPercentThreshold |-> 0, MaxConcurrentRequests |-> 0]
    /\ settings = [ErrorPercentThreshold |-> defaultErrorThreshold,
                   MaxConcurrentRequests |-> defaultMaxConcurrentRequests]
    /\ once = "done"
    /\ warnings = {}
    /\ method = [c \in Calls |-> "GET"]
    /\ role = [c \in Calls |-> "none"]
    /\ flight = [k \in Keys |-> 0]
    /\ open = FALSE
    /\ trial = 0
    /\ sleepElapsed = FALSE
    /\ requests = 0
    /\ errors = 0
    /\ ticket = [c \in Calls |-> FALSE]
    /\ pc = [c \in Calls |-> IF c = 1 THEN "retry" ELSE "off"]
    /\ ctx \in [Calls -> {"live", "canceled", "expired"}]
    /\ \A c \in Calls : c # 1 => ctx[c] = "live"
    /\ remote \in [Calls -> Remotes]
    /\ \A c \in Calls : c # 1 => remote[c] = Free
    /\ body \in [Calls -> Bodies]
    /\ \A c \in Calls : c # 1 => body[c] = NilBody
    /\ req = [c \in Calls |-> NilBody]
    /\ reqClone = [c \in Calls |-> NilBody]
    /\ isFirstTry = [c \in Calls |-> TRUE]
    /\ resp = [c \in Calls |-> NilResp]
    /\ innerErr = [c \in Calls |-> NilErr]
    /\ delay = [c \in Calls |-> 0]
    /\ attempts = [c \in Calls |-> 0]
    /\ sent = [c \in Calls |-> <<>>]
    /\ drained = [c \in Calls |-> FALSE]
    /\ outcome = [c \in Calls |-> NoOutcome]
    /\ ret = [c \in Calls |-> Pair(NilResp, NilErr)]
    /\ events = [c \in Calls |-> {}]
    /\ origin = [c \in Calls |-> 0]
    /\ bodyGot = [c \in Calls |-> "unread"]

InitRetry ==
    /\ Client = InitializedClient
    /\ Retries \in [nil : {FALSE}, MaxAttempts : (-1)..MaxConfigured, BaseDelay : {0}, MaxDelay : {0}]
    /\ retrier = newRetrier(Retries)
    /\ RetrierBuilt

NextRetry ==
    \E c \in Calls :
        \/ RetryEnter(c)
        \/ RetrierCall(c)
        \/ RetryHandle(c)
        \/ BackoffElapsed(c)
        \/ BackoffCancelled(c)
        \/ \E o \in Outcomes, k \in 0..BodyLen : BaseReturn(c, o, k)
        \/ \E how \in {"canceled", "expired"} : CtxDone(c, how)

SpecRetry == InitRetry /\ [][NextRetry]_vars

----------------------------------------------------------------------------
\* CircuitBreaker

\* getMaxConcurrent taking the default whatever is configured
getMaxConcurrentAlwaysDefault(MaxConcurrentRequests) ==
    [value |-> defaultMaxConcurrentRequests, warnings |-> {}]

getMaxConcurrent(MaxConcurrentRequests) ==
    IF MaxConcurrentRequests > 0
    THEN [value |-> MaxConcurrentRequests, warnings |-> {}]
    ELSE [value |-> defaultMaxConcurrentRequests,
          warnings |-> {"using default 'max concurrent requests' setting for circuit breaker"}]

getErrorPercent(ErrorPercentThreshold) ==
    IF ErrorPercentThreshold > minErrorThreshold
    THEN [value |-> ErrorPercentThreshold, warnings |-> {}]
    ELSE [value |-> defaultErrorThreshold,
          warnings |-> {"using default 'error threshold' setting for circuit breaker"}]

\* the status codes outErrorBasedOnResponseCode tracks
TrackedCodes == {408, 429, 500, 501, 502, 503, 504, 505, 506, 507, 508, 510, 511}

\* outErrorBasedOnResponseCode with no case for 503
outErrorNo503(r) ==
    IF r.status \in TrackedCodes \ {503}
    THEN [err |-> errTrackableStatusCodeError, calls |-> {<<"CBTrackedStatusCode", r.status>>}]
    ELSE [err |-> NilErr, calls |-> {}]

\* outErrorBasedOnResponseCode: the error it returns and the Instrumentation
\* calls it makes
outErrorBasedOnResponseCode(r) ==
    IF r.status \in TrackedCodes
    THEN [err |-> errTrackableStatusCodeError, calls |-> {<<"CBTrackedStatusCode", r.status>>}]
    ELSE [err |-> NilErr, calls |-> {}]

\* breakerRun returning the tracking error for every response that was not
\* the answer to the first attempt
breakerRunCountsRetries(inner) ==
    CASE inner.err # NilErr -> [err |-> inner.err, calls |-> {}]
      [] inner.resp.attempt > 1 -> [err |-> errTrackableStatusCodeError, calls |-> {}]
      [] OTHER -> outErrorBasedOnResponseCode(inner.resp)

\* the function handed to hystrix.Do, from the return of doFunc on: the
\* error it returns to hystrix
breakerRun(inner) ==
    IF inner.err # NilErr
    THEN [err |-> inner.err, calls |-> {}]
    ELSE outErrorBasedOnResponseCode(inner.resp)

\* breakerReturn with errTrackableStatusCodeError missing from the nil case
breakerReturnLeaksMarker(err, r) ==
    CASE err = hystrixErrCircuitOpen ->
            [resp |-> r, err |-> ErrCircuitIsOpen, calls |-> {<<"CBCircuitOpen", 0>>}]
      [] err = hystrixErrMaxConcurrency ->
            [resp |-> r, err |-> ErrCircuitMaxConcurrencyReached, calls |-> {}]
      [] err = hystrixErrTimeout ->
            [resp |-> r, err |-> ErrCircuitTimeout, calls |-> {}]
      [] err = NilErr -> [resp |-> r, err |-> NilErr, calls |-> {}]
      [] OTHER -> [resp |-> r, err |-> err, calls |-> {}]

\* breakerReturn without the case of hystrix.ErrCircuitOpen
breakerReturnNoOpenCase(err, r) ==
    CASE err = hystrixErrMaxConcurrency ->
            [resp |-> r, err |-> ErrCircuitMaxConcurrencyReached, calls |-> {}]
      [] err = hystrixErrTimeout ->
            [resp |-> r, err |-> ErrCircuitTimeout, calls |-> {}]
      [] err = NilErr \/ err = errTrackableStatusCodeError ->
            [resp |-> r, err |-> NilErr, calls |-> {}]
      [] OTHER -> [resp |-> r, err |-> err, calls |-> {}]

\* the switch after hystrix.Do returned err: what buildMiddleware returns
\* and the Instrumentation calls it makes
breakerReturn(err, r) ==
    CASE err = hystrixErrCircuitOpen ->
            [resp |-> r, err |-> ErrCircuitIsOpen, calls |-> {<<"CBCircuitOpen", 0>>}]
      [] err = hystrixErrMaxConcurrency ->
            [resp |-> r, err |-> ErrCircuitMaxConcurrencyReached, calls |-> {}]
      [] err = hystrixErrTimeout ->
            [resp |-> r, err |-> ErrCircuitTimeout, calls |-> {}]
      [] err = NilErr \/ err = errTrackableStatusCodeError ->
            [resp |-> r, err |-> NilErr, calls |-> {}]
      [] OTHER -> [resp |-> r, err |-> err, calls |-> {}]

\* hystrix: the error percentage of e errors in r requests
errorPercent(r, e) == IF r > 0 THEN (200 * e + r) \div (2 * r) ELSE 0

\* hystrix: the rolling window holds enough requests and too many errors
Unhealthy ==
    /\ requests >= RequestVolumeThreshold
    /\ errorPercent(requests, errors) >= settings.ErrorPercentThreshold

\* hystrix: what the command does with a call that arrives: the circuit
\* trips when the window is unhealthy, an open circuit lets one call through
\* as a test when the sleep window has passed, and a call let through needs
\* a ticket
hystrixAdmit ==
    LET tripped == ~open /\ Unhealthy
        isOpen == open \/ tripped
        test == isOpen /\ ~tripped /\ sleepElapsed
    IN [open |-> isOpen,
        tripped |-> tripped,
        test |-> test,
        verdict |-> CASE isOpen /\ ~test -> hystrixErrCircuitOpen
                      [] Cardinality({d \in Calls : ticket[d]}) >= settings.MaxConcurrentRequests ->
                            hystrixErrMaxConcurrency
                      [] OTHER -> NilErr]

\* the calls counted in the window or yet to be counted stay under this
MaxWindow == RequestVolumeThreshold + 2

\* hystrix.Do as a gate that makes a call wait for a free ticket
BreakerEnterQueues(c) ==
    /\ pc[c] = "cb"
    /\ hystrixAdmit.verdict # hystrixErrMaxConcurrency
    /\ LET adm == hystrixAdmit IN
        /\ open' = adm.open
        /\ sleepElapsed' = IF adm.tripped \/ adm.test THEN FALSE ELSE sleepElapsed
        /\ IF adm.verdict # NilErr
           THEN LET r == breakerReturn(adm.verdict, NilResp) IN
                /\ requests' = requests + 1
                /\ errors' = errors + 1
                /\ ret' = [ret EXCEPT ![c] = Pair(r.resp, r.err)]
                /\ events' = [events EXCEPT ![c] = @ \cup Names(r.calls)]
                /\ pc' = [pc EXCEPT ![c] = "cb_ret"]
                /\ UNCHANGED <<trial, ticket, netVars>>
           ELSE /\ ticket' = [ticket EXCEPT ![c] = TRUE]
                /\ trial' = IF adm.test THEN c ELSE trial
                /\ IF Retries.nil
                   THEN /\ attempts' = [attempts EXCEPT ![c] = @ + 1]
                        /\ sent' = [sent EXCEPT ![c] = body[c].data]
                        /\ pc' = [pc EXCEPT ![c] = "net"]
                        /\ UNCHANGED <<drained, outcome>>
                   ELSE /\ pc' = [pc EXCEPT ![c] = "retry"]
                        /\ UNCHANGED netVars
                /\ UNCHANGED <<requests, errors, ret, events>>
    /\ UNCHANGED <<respVars, cfgVars, sfVars, ctx, remote, reqVars, closureVars>>

\* a call arrives at the breaker: hystrix.Do rejects it or runs the function
BreakerEnter(c) ==
    /\ pc[c] = "cb"
    /\ LET adm == hystrixAdmit IN
        /\ open' = adm.open
        /\ sleepElapsed' = IF adm.tripped \/ adm.test THEN FALSE ELSE sleepElapsed
        /\ IF adm.verdict # NilErr
           THEN LET r == breakerReturn(adm.verdict, NilResp) IN
                /\ requests' = requests + 1
                /\ errors' = errors + 1
                /\ ret' = [ret EXCEPT ![c] = Pair(r.resp, r.err)]
                /\ events' = [events EXCEPT ![c] = @ \cup Names(r.calls)]
                /\ pc' = [pc EXCEPT ![c] = "cb_ret"]
                /\ UNCHANGED <<trial, ticket, netVars>>
           ELSE /\ ticket' = [ticket EXCEPT ![c] = TRUE]
                /\ trial' = IF adm.test THEN c ELSE trial
                /\ IF Retries.nil
                   THEN /\ attempts' = [attempts EXCEPT ![c] = @ + 1]
                        /\ sent' = [sent EXCEPT ![c] = body[c].data]
                        /\ pc' = [pc EXCEPT ![c] = "net"]
                        /\ UNCHANGED <<drained, outcome>>
                   ELSE /\ pc' = [pc EXCEPT ![c] = "retry"]
                        /\ UNCHANGED netVars
                /\ UNCHANGED <<requests, errors, ret, events>>
    /\ UNCHANGED <<respVars, cfgVars, sfVars, ctx, remote, reqVars, closureVars>>

\* hystrix: the circuit after the function of call c returned err: a success
\* closes an open circuit and empties the window before it is counted, any
\* other outcome is counted in the window as it is
hystrixReport(c, err) ==
    IF err = NilErr /\ open
    THEN [open |-> FALSE, sleepElapsed |-> FALSE, trial |-> 0, requests |-> 1, errors |-> 0]
    ELSE [open |-> open, sleepElapsed |-> sleepElapsed,
          trial |-> IF trial = c THEN 0 ELSE trial,
          requests |-> requests + 1,
          errors |-> IF err = NilErr THEN errors ELSE errors + 1]

\* the function handed to hystrix.Do returned: hystrix counts the outcome
\* and takes the ticket back, buildMiddleware maps the error of hystrix.Do
BreakerExit(c) ==
    /\ pc[c] = "retry_ret" \/ (pc[c] = "base_ret" /\ Retries.nil)
    /\ LET run == breakerRun(ret[c])
           r == breakerReturn(run.err, ret[c].resp)
           rep == hystrixReport(c, run.err)
       IN
        /\ open' = rep.open
        /\ sleepElapsed' = rep.sleepElapsed
        /\ trial' = rep.trial
        /\ requests' = rep.requests
        /\ errors' = rep.errors
        /\ ticket' = [ticket EXCEPT ![c] = FALSE]
        /\ ret' = [ret EXCEPT ![c] = Pair(r.resp, r.err)]
        /\ events' = [events EXCEPT ![c] = @ \cup Names(run.calls) \cup Names(r.calls)]
        /\ pc' = [pc EXCEPT ![c] = "cb_ret"]
    /\ UNCHANGED <<respVars, cfgVars, sfVars, ctx, remote, reqVars, closureVars, netVars>>

\* hystrix: the sleep window of the open circuit passes
SleepWindowElapsed ==
    /\ open
    /\ ~sleepElapsed
    /\ sleepElapsed' = TRUE
    /\ UNCHANGED <<respVars, cfgVars, sfVars, open, trial, requests, errors, ticket, pc, ctx,
                   remote, reqVars, closureVars, netVars, ret, events>>

\* hystrix: the rolling window moves past the requests it counted
WindowRolls ==
    /\ requests > 0
    /\ requests' = 0
    /\ errors' = 0
    /\ UNCHANGED <<respVars, cfgVars, sfVars, open, trial, sleepElapsed, ticket, pc, ctx,
                   remote, reqVars, closureVars, netVars, ret, events>>

----------------------------------------------------------------------------
\* Singleflight

\* actualKeyGenerator set to the default generator whatever is configured
actualKeyGeneratorDefaultOnly(m) == DefaultSFKeyGenerator(m, "/")

\* Singleflight.actualKeyGenerator as set by doInitOnce; the custom
\* generator of the model keys a request by its URL alone
actualKeyGenerator(m) ==
    IF Singleflight.KeyGenerator THEN "/" ELSE DefaultSFKeyGenerator(m, "/")

\* sfSkipped that passes no request on whatever its method
sfSkippedNever(m) == Singleflight.nil

\* sfSkipped passing every request on when there is no custom key generator
sfSkippedAllMethods(m) == Singleflight.nil \/ ~Singleflight.KeyGenerator

\* the middleware is skipped: no Singleflight, or no custom key generator
\* and a method other than GET
sfSkipped(m) ==
    Singleflight.nil \/ (~Singleflight.KeyGenerator /\ m # "GET")

\* SingleflightEnter with a group that keeps what a finished execution
\* returned: a call that finds no flight takes the result of a call that is
\* done
SingleflightEnterKeepsResult(c) ==
    /\ pc[c] = "sf"
    /\ IF sfSkipped(method[c])
       THEN /\ pc' = [pc EXCEPT ![c] = "cb"]
            /\ UNCHANGED <<role, flight, ret>>
       ELSE LET key == actualKeyGenerator(method[c])
                kept == {d \in Calls \ {c} : pc[d] = "done"}
            IN
            IF flight[key] = 0 /\ kept = {}
            THEN /\ flight' = [flight EXCEPT ![key] = c]
                 /\ role' = [role EXCEPT ![c] = "leader"]
                 /\ pc' = [pc EXCEPT ![c] = "cb"]
                 /\ UNCHANGED ret
            ELSE IF flight[key] = 0
            THEN /\ role' = [role EXCEPT ![c] = "waiter"]
                 /\ pc' = [pc EXCEPT ![c] = "sf_post"]
                 /\ ret' = [ret EXCEPT ![c] = ret[CHOOSE d \in kept : TRUE]]
                 /\ UNCHANGED flight
            ELSE /\ role' = [role EXCEPT ![c] = "waiter"]
                 /\ pc' = [pc EXCEPT ![c] = "sf_wait"]
                 /\ UNCHANGED <<flight, ret>>
    /\ UNCHANGED <<respVars, cfgVars, method, cbVars, ctx, remote, reqVars, closureVars, netVars, events>>

\* a call arrives at the singleflight middleware: it goes on alone, starts
\* the flight of its key or waits for the flight there is
SingleflightEnter(c) ==
    /\ pc[c] = "sf"
    /\ IF sfSkipped(method[c])
       THEN /\ pc' = [pc EXCEPT ![c] = "cb"]
            /\ UNCHANGED <<role, flight>>
       ELSE LET key == actualKeyGenerator(method[c]) IN
            IF flight[key] = 0
            THEN /\ flight' = [flight EXCEPT ![key] = c]
                 /\ role' = [role EXCEPT ![c] = "leader"]
                 /\ pc' = [pc EXCEPT ![c] = "cb"]
            ELSE /\ role' = [role EXCEPT ![c] = "waiter"]
                 /\ pc' = [pc EXCEPT ![c] = "sf_wait"]
                 /\ UNCHANGED flight
    /\ UNCHANGED <<respVars, cfgVars, method, cbVars, ctx, remote, reqVars, closureVars, netVars, ret, events>>

\* the calls that wait for the flight of call c
Waiters(c) ==
    {w \in Calls : pc[w] = "sf_wait" /\ actualKeyGenerator(method[w]) = actualKeyGenerator(method[c])}

\* the function of the call in flight returned: group.Do forgets the key and
\* hands the result to the call and to every call that waits
SingleflightShare(c) ==
    /\ pc[c] = "cb_ret"
    /\ role[c] = "leader"
    /\ flight' = [flight EXCEPT ![actualKeyGenerator(method[c])] = 0]
    /\ ret' = [w \in Calls |-> IF w \in Waiters(c) THEN ret[c] ELSE ret[w]]
    /\ pc' = [w \in Calls |-> IF w = c \/ w \in Waiters(c) THEN "sf_post" ELSE pc[w]]
    /\ origin' = [w \in Calls |-> IF w \in Waiters(c) THEN c ELSE origin[w]]
    /\ UNCHANGED <<cfgVars, method, role, cbVars, ctx, remote, reqVars, closureVars, netVars, events, bodyGot>>

\* what follows group.Do in buildMiddleware: the Instrumentation calls, given
\* the error of group.Do and the closure's innerErr
sfAfter(err, sfInnerErr) ==
    IF err # NilErr /\ sfInnerErr = NilErr THEN {<<"SingleflightErr", 0>>} ELSE {}

\* the closure's innerErr when group.Do returned to call c: the function ran
\* in the call that started the flight
sfInnerErr(c) == IF role[c] = "leader" THEN ret[c].err ELSE NilErr

----------------------------------------------------------------------------
\* Client

\* Client.doInitOnce: the Client's fields with their defaults, the breaker's
\* command as configured, the retrier and the warnings
doInitOnce ==
    LET mc == getMaxConcurrent(CircuitBreaker.MaxConcurrentRequests)
        ep == getErrorPercent(CircuitBreaker.ErrorPercentThreshold)
        bd == getBaseDelay(Retries.BaseDelay)
        md == getMaxDelay(Retries.MaxDelay)
        timeout == IF Client.Timeout = 0 THEN defaultTimeout ELSE Client.Timeout
        connectTimeout ==
            IF Client.ConnectTimeout = 0 THEN defaultConnectTimeout ELSE Client.ConnectTimeout
    IN [Client |-> [Name |-> IF Client.Name = "" THEN "smart-http-0" ELSE Client.Name,
                    Timeout |-> timeout,
                    ConnectTimeout |-> connectTimeout,
                    Client |-> IF Client.Client.nil
                               THEN buildClient(timeout, connectTimeout)
                               ELSE Client.Client],
        settings |-> [ErrorPercentThreshold |-> ep.value, MaxConcurrentRequests |-> mc.value],
        retrier |-> IF Retries.nil THEN retrier ELSE newRetrier(Retries),
        warnings |->
            (IF Client.Name = ""
             THEN {"name was not supplied.  Use of unique and informative names is strongly recommended"}
             ELSE {})
            \cup mc.warnings \cup ep.warnings
            \cup (IF Retries.nil THEN {}
                  ELSE (IF Retries.MaxAttempts <= 0
                        THEN {"using default 'max attempts' setting for retries"} ELSE {})
                       \cup bd.warnings \cup md.warnings)]

\* the calls that are under way
Active == {c \in Calls : pc[c] \notin {"off", "idle", "done"}}

\* Do is called with a request of method m and a context that is live
DoCall(c, m) ==
    /\ pc[c] \in {"idle", "done"}
    /\ requests + Cardinality(Active) < MaxWindow
    /\ pc' = [pc EXCEPT ![c] = "once"]
    /\ method' = [method EXCEPT ![c] = m]
    /\ ret' = [ret EXCEPT ![c] = Pair(NilResp, NilErr)]
    /\ events' = [events EXCEPT ![c] = {}]
    /\ origin' = [origin EXCEPT ![c] = 0]
    /\ bodyGot' = [bodyGot EXCEPT ![c] = "unread"]
    /\ UNCHANGED <<cfgVars, role, flight, cbVars, ctx, remote, reqVars, closureVars, netVars>>

\* OnceDo as a test of a flag with no lock: every call that finds the
\* initialization not finished runs doInitOnce
OnceDoUnguarded(c) ==
    /\ pc[c] = "once"
    /\ IF once # "done"
       THEN /\ once' = "running"
            /\ pc' = [pc EXCEPT ![c] = "init"]
       ELSE /\ pc' = [pc EXCEPT ![c] = "sf"]
            /\ UNCHANGED once
    /\ UNCHANGED <<respVars, Client, Retries, retrier, Singleflight, CircuitBreaker, settings, warnings,
                   pipeVars, ctx, remote, reqVars, closureVars, netVars, ret, events>>

\* clientInitOnce.Do: the first call runs doInitOnce, the others go on once
\* it has returned
OnceDo(c) ==
    /\ pc[c] = "once"
    /\ once # "running"
    /\ IF once = "fresh"
       THEN /\ once' = "running"
            /\ pc' = [pc EXCEPT ![c] = "init"]
       ELSE /\ pc' = [pc EXCEPT ![c] = "sf"]
            /\ UNCHANGED once
    /\ UNCHANGED <<respVars, Client, Retries, retrier, Singleflight, CircuitBreaker, settings, warnings,
                   pipeVars, ctx, remote, reqVars, closureVars, netVars, ret, events>>

DoInitOnce(c) ==
    /\ pc[c] = "init"
    /\ LET i == doInitOnce IN
        /\ Client' = i.Client
        /\ settings' = i.settings
        /\ retrier' = i.retrier
        /\ warnings' = warnings \cup i.warnings
    /\ once' = "done"
    /\ pc' = [pc EXCEPT ![c] = "sf"]
    /\ UNCHANGED <<respVars, Retries, Singleflight, CircuitBreaker,
                   pipeVars, ctx, remote, reqVars, closureVars, netVars, ret, events>>

\* the middlewares returned to Do: the singleflight middleware, when the call
\* went through group.Do, reports its error, and Do returns to its caller.
\* The caller keeps what Do returned; the request and the closures' variables
\* are gone
DoReturn(c) ==
    /\ pc[c] = "sf_post" \/ (pc[c] = "cb_ret" /\ role[c] = "none")
    /\ events' = [events EXCEPT ![c] =
            @ \cup (IF role[c] = "none" THEN {} ELSE Names(sfAfter(ret[c].err, sfInnerErr(c))))
              \cup {"DoDuration"}]
    /\ pc' = [pc EXCEPT ![c] = "done"]
    /\ method' = [method EXCEPT ![c] = "GET"]
    /\ role' = [role EXCEPT ![c] = "none"]
    /\ ctx' = [ctx EXCEPT ![c] = "live"]
    /\ isFirstTry' = [isFirstTry EXCEPT ![c] = TRUE]
    /\ resp' = [resp EXCEPT ![c] = NilResp]
    /\ innerErr' = [innerErr EXCEPT ![c] = NilErr]
    /\ delay' = [delay EXCEPT ![c] = 0]
    /\ attempts' = [attempts EXCEPT ![c] = 0]
    /\ outcome' = [outcome EXCEPT ![c] = NoOutcome]
    /\ UNCHANGED <<respVars, cfgVars, flight, cbVars, remote, body, req, reqClone, sent, drained, ret>>

\* the calls whose request meets every outcome and whose context the caller
\* ends; the requests of the other calls are answered with a status
Observed == {1}

\* the outcomes of a round trip the model of the whole client draws from
PipelineOutcomes(c) ==
    [kind : {"status"}, status : IF c \in Observed THEN {200, 404, 503} ELSE {200, 503}]
        \cup [kind : IF c \in Observed
                     THEN {"dialTimeout", "clientTimeout", "ctxDeadline", "ctxCanceled"}
                     ELSE {},
              status : {0}]
        \cup [kind : IF c \in Observed THEN {"redirect"} ELSE {}, status : {301}]

\* the fields of a Client as its owner sets them
Configured(r, s, b) == [Retries |-> r, Singleflight |-> s, CircuitBreaker |-> b]

NoRetries == [nil |-> TRUE, MaxAttempts |-> 0, BaseDelay |-> 0, MaxDelay |-> 0]

TwoAttempts == [nil |-> FALSE, MaxAttempts |-> 2, BaseDelay |-> 0, MaxDelay |-> 0]

NoSingleflight == [nil |-> TRUE, KeyGenerator |-> FALSE]

DefaultKeys == [nil |-> FALSE, KeyGenerator |-> FALSE]

CustomKeys == [nil |-> FALSE, KeyGenerator |-> TRUE]

ZeroBreaker == [ErrorPercentThreshold |-> 0, MaxConcurrentRequests |-> 0]

TightBreaker == [ErrorPercentThreshold |-> 60, MaxConcurrentRequests |-> 1]

\* the Clients the model runs
Clients ==
    {Configured(NoRetries, NoSingleflight, ZeroBreaker),
     Configured(NoRetries, DefaultKeys, TightBreaker),
     Configured(NoRetries, CustomKeys, ZeroBreaker),
     Configured(TwoAttempts, NoSingleflight, TightBreaker),
     Configured(TwoAttempts, DefaultKeys, ZeroBreaker)}

\* the methods of the requests the model of the whole client draws from
PipelineMethods(c) == IF c \in Observed THEN Methods ELSE {"GET", "POST"}

Constructed ==
    /\ retrier = [MaxAttempts |-> 0, BaseDelay |-> 0, MaxDelay |-> 0]
    /\ settings = [ErrorPercentThreshold |-> 0, MaxConcurrentRequests |-> 0]
    /\ once = "fresh"
    /\ warnings = {}
    /\ method = [c \in Calls |-> "GET"]
    /\ role = [c \in Calls |-> "none"]
    /\ flight = [k \in Keys |-> 0]
    /\ open = FALSE
    /\ trial = 0
    /\ sleepElapsed = FALSE
    /\ requests = 0
    /\ errors = 0
    /\ ticket = [c \in Calls |-> FALSE]
    /\ pc = [c \in Calls |-> "idle"]
    /\ ctx = [c \in Calls |-> "live"]
    /\ remote = [c \in Calls |-> Free]
    /\ body = [c \in Calls |-> NilBody]
    /\ req = [c \in Calls |-> NilBody]
    /\ reqClone = [c \in Calls |-> NilBody]
    /\ isFirstTry = [c \in Calls |-> TRUE]
    /\ resp = [c \in Calls |-> NilResp]
    /\ innerErr = [c \in Calls |-> NilErr]
    /\ delay = [c \in Calls |-> 0]
    /\ attempts = [c \in Calls |-> 0]
    /\ sent = [c \in Calls |-> <<>>]
    /\ drained = [c \in Calls |-> FALSE]
    /\ outcome = [c \in Calls |-> NoOutcome]
    /\ ret = [c \in Calls |-> Pair(NilResp, NilErr)]
    /\ events = [c \in Calls |-> {}]
    /\ origin = [c \in Calls |-> 0]
    /\ bodyGot = [c \in Calls |-> "unread"]

Init ==
    /\ \E cl \in Clients :
        /\ Retries = cl.Retries
        /\ Singleflight = cl.Singleflight
        /\ CircuitBreaker = cl.CircuitBreaker
    /\ Client = NamedClient
    /\ Constructed

Next ==
    \/ \E c \in Calls :
        \/ \E m \in PipelineMethods(c) : DoCall(c, m)
        \/ OnceDo(c)
        \/ DoInitOnce(c)
        \/ SingleflightEnter(c)
        \/ BreakerEnter(c)
        \/ RetryEnter(c)
        \/ RetrierCall(c)
        \/ \E o \in PipelineOutcomes(c) : BaseReturn(c, o, 0)
        \/ RetryHandle(c)
        \/ BackoffElapsed(c)
        \/ BackoffCancelled(c)
        \/ BreakerExit(c)
        \/ SingleflightShare(c)
        \/ DoReturn(c)
    \/ \E c \in Observed, how \in {"canceled", "expired"} : CtxDone(c, how)
    \/ SleepWindowElapsed
    \/ WindowRolls

Spec == Init /\ [][Next]_vars

----------------------------------------------------------------------------
\* The callers read the response Do returned

\* the execution that made the response call c holds
Execution(c) == IF origin[c] = 0 THEN c ELSE origin[c]

\* the caller of call c reads the body of the response Do returned to the
\* end.  The calls of one group were handed the same *http.Response, whose
\* Body is a stream that is read once: the first reader gets the whole body,
\* a later one nothing.  (Exact in runs where each caller calls Do once.)
ReadBody(c) ==
    /\ pc[c] = "done"
    /\ ret[c].resp # NilResp
    /\ bodyGot[c] = "unread"
    /\ LET readers == {d \in Calls \ {c} : Execution(d) = Execution(c) /\ bodyGot[d] = "full"} IN
        bodyGot' = [bodyGot EXCEPT ![c] = IF readers = {} THEN "full" ELSE "empty"]
    /\ UNCHANGED <<cfgVars, pipeVars, pc, ctx, remote, reqVars, closureVars, netVars, ret, events, origin>>

\* two callers of a Client with a Singleflight call Do once each with a GET
\* request for the same URL and read what they get
InitFanOut == Init /\ ~Singleflight.nil

FirstCall(c) == pc[c] = "idle" /\ DoCall(c, "GET")

NextFanOut ==
    \E c \in Calls :
        \/ FirstCall(c)
        \/ OnceDo(c)
        \/ DoInitOnce(c)
        \/ SingleflightEnter(c)
        \/ BreakerEnter(c)
        \/ RetryEnter(c)
        \/ RetrierCall(c)
        \/ \E code \in {200, 503} : BaseReturn(c, [kind |-> "status", status |-> code], 0)
        \/ RetryHandle(c)
        \/ BackoffElapsed(c)
        \/ BreakerExit(c)
        \/ SingleflightShare(c)
        \/ DoReturn(c)
        \/ ReadBody(c)

SpecFanOut == InitFanOut /\ [][NextFanOut]_vars

\* ---------------------------------------------------------------------
\* Construction: clients whose fields hold any value a caller can write,
\* taken through the first call's initialisation.
\* ---------------------------------------------------------------------
Durations == {-1, 0, 5}

Thresholds == {-1, 0, 49, 50, 51, 80}

ClientFields ==
    [Name : {"", "shop"}, Timeout : Durations, ConnectTimeout : Durations,
     Client : {NilClient}]

RetriesFields ==
    {NoRetries} \cup
    [nil : {FALSE}, MaxAttempts : {-1, 0, 2}, BaseDelay : Durations, MaxDelay : Durations]

BreakerFields ==
    [ErrorPercentThreshold : Thresholds, MaxConcurrentRequests : {-1, 0, 1}]

InitFields ==
    /\ Client \in ClientFields
    /\ Retries \in RetriesFields
    /\ Singleflight = [nil |-> TRUE, KeyGenerator |-> FALSE]
    /\ CircuitBreaker \in BreakerFields
    /\ Constructed

NextFields ==
    \E c \in Calls :
        \/ FirstCall(c)
        \/ OnceDo(c)
        \/ DoInitOnce(c)

SpecFields == InitFields /\ [][NextFields]_vars

\* ---------------------------------------------------------------------
\* Backoff: a retrier built from any configured delays, against a remote
\* that keeps answering with a retriable status.
\* ---------------------------------------------------------------------
Delays == {-1, 0, 1, 3, 5}

InitBackoff ==
    /\ Client = InitializedClient
    /\ Retries \in [nil : {FALSE}, MaxAttempts : {MaxConfigured},
                    BaseDelay : Delays, MaxDelay : Delays]
    /\ retrier = newRetrier(Retries)
    /\ RetrierBuilt
    /\ body[1] = NilBody

SpecBackoff == InitBackoff /\ [][NextRetry]_vars

\* ---------------------------------------------------------------------
\* Progress: every call runs on a goroutine of its own that the scheduler
\* keeps running, timers fire, and every round trip returns.  Nothing
\* obliges a caller to call Do, a context to end or the window to roll.
\* ---------------------------------------------------------------------
FairOutcomes == [kind : {"status"}, status : {200, 503}]

Proceeds(c) ==
    \/ OnceDo(c)
    \/ DoInitOnce(c)
    \/ SingleflightEnter(c)
    \/ BreakerEnter(c)
    \/ RetryEnter(c)
    \/ RetrierCall(c)
    \/ \E o \in FairOutcomes : BaseReturn(c, o, 0)
    \/ RetryHandle(c)
    \/ BackoffElapsed(c)
    \/ BackoffCancelled(c)
    \/ BreakerExit(c)
    \/ SingleflightShare(c)
    \/ DoReturn(c)

Scheduling == \A c \in Calls : WF_vars(Proceeds(c))

\* a client with all three layers
InitFair ==
    /\ Retries = TwoAttempts
    /\ Singleflight = DefaultKeys
    /\ CircuitBreaker = TightBreaker
    /\ Client = NamedClient
    /\ Constructed

NextFair ==
    \/ \E c \in Calls :
        \/ \E m \in {"GET", "POST"} : DoCall(c, m)
        \/ Proceeds(c)
    \/ \E c \in Observed : CtxDone(c, "canceled")
    \/ SleepWindowElapsed
    \/ WindowRolls

SpecFair == InitFair /\ [][NextFair]_vars /\ Scheduling

----------------------------------------------------------------------------
\* Properties of the retry middleware

\* the number of attempts Retries.MaxAttempts stands for
Limit == IF Retries.MaxAttempts > 0 THEN Retries.MaxAttempts ELSE 3

Markers == {"errRetryAllowed", "errRetryImpossible", "ErrAttemptsExceeded"}

\* the non-retriable status codes: 400-417 but 408, 421-431, 451, 501, 502,
\* 505-511, and 418
NonRetriableSet ==
    (((400..418) \cup (421..431) \cup {451, 501, 502} \cup (505..511)) \ RetriableCodes)

\* C1: a call of the retry middleware starts at most MaxAttempts round trips
\* (3 when MaxAttempts is not positive), and it starts one unless the request
\* context is done or the request body cannot be read
C1_AttemptBound ==
    \A c \in Calls :
        /\ attempts[c] <= Limit
        /\ (pc[c] = "retry_ret" /\ attempts[c] = 0) =>
                (ctx[c] # "live" \/ body[c].kind = "bad")

\* C1 as stated: no attempt only when the request context is done
C1_Original ==
    \A c \in Calls :
        /\ attempts[c] <= Limit
        /\ (pc[c] = "retry_ret" /\ attempts[c] = 0) => ctx[c] # "live"

C1_Witness ==
    \E c \in Calls :
        /\ pc[c] = "retry_ret"
        /\ Retries.MaxAttempts <= 0
        /\ attempts[c] = 3
        /\ ctx[c] = "live"

\* the destination answered call c as its script says and nothing else ended the call
Undisturbed(c) ==
    /\ remote[c].scripted
    /\ pc[c] = "retry_ret"
    /\ ctx[c] = "live"
    /\ body[c].kind # "bad"

\* C2: when the destination answers N < MaxAttempts times with a retriable
\* status and then with a success, the call returns that success with a nil
\* error after exactly N+1 round trips
C2_RetriableThenSuccess ==
    \A c \in Calls :
        (Undisturbed(c) /\ remote[c].n < retrier.MaxAttempts) =>
            /\ ret[c] = Pair(Response(200, remote[c].n + 1), NilErr)
            /\ attempts[c] = remote[c].n + 1

\* C2 as stated: the same for every N <= MaxAttempts
C2_Original ==
    \A c \in Calls :
        (Undisturbed(c) /\ remote[c].n <= retrier.MaxAttempts) =>
            /\ ret[c] = Pair(Response(200, remote[c].n + 1), NilErr)
            /\ attempts[c] = remote[c].n + 1

C2_Witness ==
    \E c \in Calls :
        /\ Undisturbed(c)
        /\ remote[c] = Script(503, 2)
        /\ retrier.MaxAttempts = 3
        /\ attempts[c] = 3
        /\ ret[c] = Pair(Response(200, 3), NilErr)

\* C3: every round trip of a call, the first and every retry, is started
\* with the complete body of the request
C3_FullBodyEveryAttempt ==
    \A c \in Calls : attempts[c] > 0 => sent[c] = body[c].data

C3_Witness ==
    \E c \in Calls :
        /\ pc[c] = "net"
        /\ attempts[c] = 3
        /\ drained[c]
        /\ sent[c] = FullBody

\* C4: when the first round trip returns a non-retriable status, the call
\* makes no other and returns that response with a nil error
C4_NonRetriableOnce ==
    \A c \in Calls :
        (/\ attempts[c] = 1
         /\ outcome[c].kind = "status"
         /\ outcome[c].status \in NonRetriableSet
         /\ pc[c] # "base_ret") =>
            /\ pc[c] = "retry_ret"
            /\ ret[c] = Pair(Response(outcome[c].status, 1), NilErr)

C4_Witness ==
    \E c \in Calls :
        /\ pc[c] = "retry_ret"
        /\ attempts[c] = 1
        /\ outcome[c] = [kind |-> "status", status |-> 429]
        /\ ret[c] = Pair(Response(429, 1), NilErr)
        /\ "RetryNonRetriable" \in events[c]

\* the last round trip of c ended in a retriable outcome
LastRetriable(c) ==
    \/ outcome[c].kind = "status" /\ outcome[c].status \in RetriableCodes
    \/ outcome[c].kind \in {"clientTimeout", "ctxDeadline"}

\* C5: when all MaxAttempts round trips ended in a retriable outcome the call
\* returns the response and error of the last one, and no call ever returns
\* errRetryAllowed, errRetryImpossible or the retrier's ErrAttemptsExceeded
C5_ExhaustedReturnsLast ==
    \A c \in Calls :
        pc[c] = "retry_ret" =>
            /\ ret[c].err.chain \cap Markers = {}
            /\ (attempts[c] = retrier.MaxAttempts /\ LastRetriable(c)) =>
                    IF outcome[c].kind = "status"
                    THEN ret[c] = Pair(Response(outcome[c].status, attempts[c]), NilErr)
                    ELSE ret[c].resp = NilResp /\ Is(ret[c].err, ErrTimeout)

C5_Witness ==
    \E c \in Calls :
        /\ pc[c] = "retry_ret"
        /\ retrier.MaxAttempts = 3
        /\ attempts[c] = 3
        /\ outcome[c] = [kind |-> "status", status |-> 503]
        /\ ret[c] = Pair(Response(503, 3), NilErr)

\* the error a failure of the connection or of the context is returned as
Expected(kind) ==
    CASE kind = "dialTimeout" -> ErrConnectTimeout
      [] kind = "dialNetError" -> ErrConnection
      [] kind = "ctxCanceled" -> Canceled
      [] OTHER -> DeadlineExceeded

\* C6: when a round trip fails to connect or fails because the request
\* context was cancelled or its deadline passed, the call makes no other
\* round trip and returns that error
C6_HardErrorsNotRetried ==
    \A c \in Calls :
        (/\ attempts[c] = 1
         /\ outcome[c].kind \in {"dialTimeout", "dialNetError", "ctxCanceled", "ctxDeadline"}
         /\ pc[c] # "base_ret") =>
            /\ pc[c] = "retry_ret"
            /\ Is(ret[c].err, Expected(outcome[c].kind))

\* C7: the base request returns the expiry of the caller's deadline as the
\* deadline error itself, and only another timeout as an ErrTimeout
C7_DeadlinePassthrough ==
    \A c \in Calls :
        pc[c] = "base_ret" =>
            /\ outcome[c].kind = "ctxDeadline" =>
                    (Is(ret[c].err, DeadlineExceeded) /\ ~Is(ret[c].err, ErrTimeout))
            /\ Is(ret[c].err, ErrTimeout) => outcome[c].kind = "clientTimeout"

----------------------------------------------------------------------------
\* Properties of Client.Do

\* Do has what it returns to the caller of call c
Returning(c) == pc[c] = "sf_post" \/ (pc[c] = "cb_ret" /\ role[c] = "none")

C9_TimeoutNilResponse ==
    \A c \in Calls :
        (pc[c] = "done" /\ Is(ret[c].err, ErrTimeout)) => ret[c].resp = NilResp

C9_Witness ==
    \E c \in Calls :
        /\ pc[c] = "done"
        /\ Is(ret[c].err, ErrTimeout)
        /\ ret[c].resp = NilResp
        /\ "RetryRetriable" \in events[c]
        /\ ~Retries.nil

\* C10: when the window of a closed circuit holds at least the request volume
\* and its error rate is over the threshold, the call that arrives at the
\* breaker next is rejected: the breaker returns ErrCircuitIsOpen with no
\* response, CBCircuitOpen is reported, and the call enters neither the retry
\* middleware nor a round trip.
C10_TripRejectsNext ==
    [][\A c \in Calls :
        (/\ pc[c] = "cb"
         /\ pc'[c] # "cb"
         /\ ~open
         /\ requests >= RequestVolumeThreshold
         /\ errorPercent(requests, errors) > settings.ErrorPercentThreshold)
        => /\ pc'[c] = "cb_ret"
           /\ ret'[c] = Pair(NilResp, ErrCircuitIsOpen)
           /\ "CBCircuitOpen" \in events'[c]
           /\ attempts'[c] = 0
           /\ ~ticket'[c]
           /\ open']_vars

C10_Witness ==
    \E c, d \in Calls :
        /\ c # d
        /\ pc[d] = "done"
        /\ ret[d] = Pair(Response(503, 1), NilErr)
        /\ pc[c] = "cb_ret"
        /\ ret[c] = Pair(NilResp, ErrCircuitIsOpen)
        /\ "CBCircuitOpen" \in events[c]
        /\ attempts[c] = 0
        /\ open
        /\ requests = RequestVolumeThreshold + 1
        /\ errors = requests

\* the calls that run inside the breaker
Holders == {d \in Calls : ticket[d]}

\* the capacity of the gate a Client is configured for
GateCapacity ==
    IF CircuitBreaker.MaxConcurrentRequests > 0
    THEN CircuitBreaker.MaxConcurrentRequests
    ELSE 10

\* call c leaves the entry of the breaker while the gate is full
ArrivesAtFullGate(c) ==
    /\ pc[c] = "cb"
    /\ pc'[c] # "cb"
    /\ Cardinality(Holders) >= GateCapacity

Completes(c) ==
    /\ pc[c] = "retry_ret" \/ (pc[c] = "base_ret" /\ Retries.nil)
    /\ pc'[c] = "cb_ret"

\* the step adds a failure to the window
CountsFailure == requests' = requests + 1 /\ errors' = errors + 1

\* the step adds a success to the window, which a success that closes the
\* circuit empties first
CountsSuccess ==
    \/ requests' = requests + 1 /\ errors' = errors
    \/ open /\ ~open' /\ requests' = 1 /\ errors' = 0

TrackedSet == {408, 429, 500, 501, 502, 503, 504, 505, 506, 507, 508, 510, 511}

Rejects(c) == pc[c] = "cb" /\ pc'[c] = "cb_ret"

\* C14: the window of the breaker changes only when a call completes inside
\* the breaker, when a call is rejected or when the window rolls, so the
\* attempts of the retry middleware are not counted one by one; a call that
\* completes is counted once by what the retry sequence returned, and a call
\* that returns a success after a retriable failure adds no failure.
C14_OneOutcomePerCall ==
    [][/\ (requests' # requests \/ errors' # errors) =>
            \/ \E c \in Calls : Completes(c) \/ Rejects(c)
            \/ requests' = 0 /\ errors' = 0
       /\ \A c \in Calls :
            Completes(c) =>
                /\ CountsFailure # CountsSuccess
                /\ (ret[c].err = NilErr /\ ret[c].resp.status \notin TrackedSet) =>
                        CountsSuccess /\ errors' <= errors]_vars

C14_Witness ==
    \E c \in Calls :
        /\ pc[c] = "cb_ret"
        /\ attempts[c] = 2
        /\ "RetryRetriable" \in events[c]
        /\ ret[c] = Pair(Response(200, 2), NilErr)
        /\ requests = 1
        /\ errors = 0
        /\ ~open

\* the request of call c is one the Client coalesces
Coalesced(c) ==
    ~Singleflight.nil /\ (Singleflight.KeyGenerator \/ method[c] = "GET")

\* calls c and d present the same key: every request of the model has the
\* same URL, and the custom generator of the model keys by the URL
SameKey(c, d) == Singleflight.KeyGenerator \/ method[c] = method[d]

\* call d runs the execution others with its key wait for
InFlight(d) == role[d] = "leader" /\ pc[d] \notin {"sf_post", "done"}

\* C15: a call that arrives with the key of an execution in flight waits for
\* it: it takes no ticket and makes no attempt, it leaves the wait only in the
\* step in which that execution completes, with the response and the error
\* the execution produced, and Do returns that pair to each caller.
C15_SharedResult ==
    [][\A c \in Calls :
        /\ (/\ pc[c] = "sf"
            /\ pc'[c] # "sf"
            /\ Coalesced(c)
            /\ \E d \in Calls \ {c} : InFlight(d) /\ Coalesced(d) /\ SameKey(c, d))
           => pc'[c] = "sf_wait"
        /\ pc'[c] = "sf_wait" => attempts'[c] = 0 /\ ~ticket'[c]
        /\ (pc[c] = "sf_wait" /\ pc'[c] # "sf_wait") =>
            /\ pc'[c] = "sf_post"
            /\ attempts'[c] = 0
            /\ \E d \in Calls \ {c} :
                /\ InFlight(d)
                /\ SameKey(c, d)
                /\ pc[d] = "cb_ret"
                /\ pc'[d] = "sf_post"
                /\ ret'[d] = ret[d]
                /\ ret'[c] = ret[d]
        /\ (pc[c] = "sf_post" /\ pc'[c] = "done") => ret'[c] = ret[c]]_vars

C15_Witness ==
    \E c, d \in Calls :
        /\ c # d
        /\ role[c] = "waiter"
        /\ role[d] = "leader"
        /\ pc[c] = "sf_post"
        /\ pc[d] = "sf_post"
        /\ attempts[c] = 0
        /\ attempts[d] = 1
        /\ ret[c] = ret[d]
        /\ ret[d] = Pair(Response(200, 1), NilErr)

\* the methods of the model that are safe (RFC 9110)
SafeMethods == {"GET", "HEAD"}

\* call c leaves the entry of the singleflight middleware
Arrives(c) == pc[c] = "sf" /\ pc'[c] # "sf"

\* call c goes on to the breaker by itself, outside the group
RunsAlone(c) == pc'[c] = "cb" /\ role'[c] = "none"

\* call c goes through group.Do: it waits when an execution with its key is
\* in flight and starts one when none is
GoesThroughGroup(c) ==
    IF \E d \in Calls \ {c} : InFlight(d) /\ SameKey(c, d) /\ role[d] = "leader"
    THEN pc'[c] = "sf_wait" /\ role'[c] = "waiter"
    ELSE pc'[c] = "cb" /\ role'[c] = "leader"

\* C16 (as amended): with no custom key function a request goes through the
\* group exactly when its method is GET; a request of any other method, HEAD
\* and POST included, runs its own execution whatever is in flight.  With a
\* custom key function the requests of every method go through the group.
C16_CoalescedMethods ==
    [][\A c \in Calls :
        (Arrives(c) /\ ~Singleflight.nil) =>
            IF Singleflight.KeyGenerator \/ method[c] = "GET"
            THEN GoesThroughGroup(c)
            ELSE RunsAlone(c)]_vars

\* C16 (as stated): with no custom key function a request goes through the
\* group exactly when its method is safe.
C16_Original ==
    [][\A c \in Calls :
        (Arrives(c) /\ ~Singleflight.nil) =>
            IF Singleflight.KeyGenerator \/ method[c] \in SafeMethods
            THEN GoesThroughGroup(c)
            ELSE RunsAlone(c)]_vars

C16_Witness ==
    \E c, d \in Calls :
        /\ c # d
        /\ ~Singleflight.nil
        /\ ~Singleflight.KeyGenerator
        /\ method[c] = "POST"
        /\ method[d] = "POST"
        /\ role[c] = "none"
        /\ role[d] = "none"
        /\ pc[c] = "net"
        /\ pc[d] = "net"

\* call c is inside the breaker middleware or about to enter it
Inside(c) ==
    pc[c] \in {"cb", "retry", "retrier", "net", "base_ret", "backoff", "retry_ret", "cb_ret"}

\* the attempts one execution may make
AttemptLimit ==
    CASE Retries.nil -> 1
      [] Retries.MaxAttempts > 0 -> Retries.MaxAttempts
      [] OTHER -> 3

\* the group of call d: d and the calls that wait for its execution
Group(d) == {d} \cup {w \in Calls : pc[w] = "sf_wait" /\ SameKey(w, d)}

RECURSIVE SumAttempts(_)
SumAttempts(S) ==
    IF S = {} THEN 0
    ELSE LET x == CHOOSE y \in S : TRUE IN attempts[x] + SumAttempts(S \ {x})

\* C17: of the coalesced calls that present one key, one at a time is inside
\* the breaker; while an execution is in flight its whole group holds at
\* most one ticket and has made at most MaxAttempts attempts together, and a
\* call that waited has taken no ticket and made no attempt when it gets the
\* result.
C17_OneExecutionPerGroup ==
    /\ \A c, d \in Calls :
        (c # d /\ Coalesced(c) /\ Coalesced(d) /\ SameKey(c, d)) =>
            ~(Inside(c) /\ Inside(d))
    /\ \A d \in Calls :
        InFlight(d) =>
            /\ Cardinality(Group(d) \cap Holders) <= 1
            /\ SumAttempts(Group(d)) <= AttemptLimit
            /\ \A w \in Group(d) \ {d} : attempts[w] = 0 /\ ~ticket[w]
    /\ \A w \in Calls :
        (role[w] = "waiter" /\ pc[w] = "sf_post") => attempts[w] = 0 /\ ~ticket[w]

C17_Witness ==
    \E d, w \in Calls :
        /\ InFlight(d)
        /\ w \in Group(d) \ {d}
        /\ pc[d] = "cb_ret"
        /\ attempts[d] = 2
        /\ SumAttempts(Group(d)) = AttemptLimit
        /\ requests = 1
        /\ Holders = {}

\* C18: whatever the interleaving of the first calls, doInitOnce is run by
\* one call at a time and once in all: clientInitOnce goes from fresh to
\* running to done and never back, what the initialization sets changes in
\* that one run only, and a call is in a middleware or in the base request
\* only when the initialization is done.
C18_InitOnce ==
    [][/\ once' # once =>
            \/ once = "fresh" /\ once' = "running"
            \/ once = "running" /\ once' = "done"
       /\ Cardinality({c \in Calls : pc'[c] = "init"}) <= 1
       /\ \A c \in Calls :
            /\ (pc[c] = "init" /\ pc'[c] # "init") => once = "running" /\ once' = "done"
            /\ pc'[c] \notin {"idle", "once", "init", "done"} => once' = "done"
       /\ <<settings, retrier, warnings>>' # <<settings, retrier, warnings>> =>
            once = "running" /\ once' = "done"]_vars

C18_Witness ==
    \E c, d \in Calls :
        /\ c # d
        /\ once = "running"
        /\ pc[c] = "init"
        /\ pc[d] = "once"
        /\ ret[d] = Pair(NilResp, NilErr)

\* C19: while the context of a request is done, no round trip is started for
\* it and no wait between attempts begins; when the retry middleware returns
\* from a wait, or from the check that follows a wait, with the context done,
\* it returns the error of the context.
C19_DoneContextStops ==
    [][\A c \in Calls :
        ctx[c] # "live" =>
            /\ attempts'[c] = attempts[c]
            /\ pc'[c] = "net" => pc[c] = "net"
            /\ pc'[c] = "backoff" => pc[c] = "backoff"
            /\ (pc[c] \in {"backoff", "retrier"} /\ pc'[c] # pc[c]) =>
                \/ pc[c] = "backoff" /\ pc'[c] = "retrier"
                \/ pc'[c] = "retry_ret" /\ ret'[c].err = CtxErr(ctx[c])]_vars

C19_Witness ==
    \E c \in Calls :
        /\ pc[c] = "retry_ret"
        /\ ctx[c] = "canceled"
        /\ attempts[c] = 1
        /\ retrier.MaxAttempts > 1
        /\ outcome[c] = [kind |-> "status", status |-> 503]
        /\ ret[c].err = Canceled

\* C20: a call Do has returned from gave its caller a response and a nil
\* error, or the nil response and an error, never a response together with
\* an error.
C20_ResponseOrError ==
    \A c \in Calls :
        pc[c] = "done" => (ret[c].resp = NilResp) # (ret[c].err = NilErr)

\* the state of the circuit: closed, open, or open with a call let through
\* as the test (half open)
CircuitState ==
    CASE ~open -> "CLOSED"
      [] trial # 0 -> "HALF_OPEN"
      [] OTHER -> "OPEN"

\* the function of the call let through as the test returns, with a success
\* or with a failure as the breaker counts them
TrialEnds(success) ==
    /\ trial # 0
    /\ Completes(trial)
    /\ (ret[trial].err = NilErr /\ ret[trial].resp.status \notin TrackedSet) = success

PolicyNonRetriable ==
    ((400..417) \ {408}) \cup (421..431) \cup {451, 501, 502} \cup (505..511)

\* the retry closure takes the response doFunc returned for call c
Classifies(c) ==
    /\ pc[c] = "base_ret"
    /\ pc'[c] # "base_ret"
    /\ ret[c].err = NilErr

\* C22: the retry middleware classifies the status of each response as the
\* policy table says: 408, 500, 503 and 504 are reported as retriable; the
\* non-retriable codes of the table are reported as non-retriable and end the
\* call with that response; every other status ends the call with that
\* response and reports nothing.
C22_PolicyTable ==
    [][\A c \in Calls :
        Classifies(c) =>
            CASE ret[c].resp.status \in {408, 500, 503, 504} ->
                    /\ "RetryRetriable" \in events'[c]
                    /\ "RetryNonRetriable" \notin events'[c]
              [] ret[c].resp.status \in PolicyNonRetriable ->
                    /\ "RetryNonRetriable" \in events'[c]
                    /\ pc'[c] = "retry_ret"
                    /\ ret'[c] = ret[c]
              [] OTHER ->
                    /\ events'[c] = events[c]
                    /\ pc'[c] = "retry_ret"
                    /\ ret'[c] = ret[c]]_vars

\* C23: a group lives while its execution is in flight and no longer.  A
\* coalesced call that finds no execution in flight for its key, also after
\* an earlier one for that key completed, starts an execution of its own with
\* nothing in hand; the key is forgotten in the step in which the execution
\* completes; and what a call holds changes only by its own steps, unless it
\* waits for an execution in flight.
C23_GroupLifetime ==
    [][/\ \A c \in Calls :
            /\ (/\ Arrives(c)
                /\ Coalesced(c)
                /\ ~\E d \in Calls \ {c} : InFlight(d) /\ Coalesced(d) /\ SameKey(c, d))
               => /\ pc'[c] = "cb"
                  /\ role'[c] = "leader"
                  /\ attempts'[c] = 0
                  /\ ret'[c] = Pair(NilResp, NilErr)
            /\ (role[c] = "leader" /\ pc[c] = "cb_ret" /\ pc'[c] # "cb_ret") =>
                    \A k \in Keys : flight'[k] # c
            /\ (ret'[c] # ret[c] /\ pc[c] # "sf_wait") =>
                    /\ pc'[c] # pc[c]
                    /\ \A d \in Calls \ {c} : pc'[d] = pc[d]
       /\ \A k \in Keys :
            flight'[k] # 0 =>
                /\ role'[flight'[k]] = "leader"
                /\ pc'[flight'[k]] \notin {"sf_post", "done"}]_vars

C23_Witness ==
    \E c, d \in Calls :
        /\ c # d
        /\ Singleflight.KeyGenerator
        /\ pc[d] = "done"
        /\ ret[d] = Pair(Response(503, 1), NilErr)
        /\ role[c] = "leader"
        /\ pc[c] = "sf_post"
        /\ attempts[c] = 1
        /\ ret[c] = Pair(Response(200, 1), NilErr)
        /\ \A k \in Keys : flight[k] = 0

\* C24: SingleflightErr is reported for a failure of group.Do itself only:
\* a call that Do ended with an error its execution produced, in the call that
\* ran the execution or in a call that waited for it, has not reported
\* SingleflightErr.  (Every error of the model is produced by an execution.)
C24_NoCoalesceErrForDownstream ==
    \A c \in Calls :
        (pc[c] = "done" /\ ret[c].err # NilErr) => "SingleflightErr" \notin events[c]

\* the Instrumentation calls that report a failure or a decision
DecisionEvents ==
    {"BaseDoErr:timeout", "BaseDoErr:ctxTimeout", "BaseDoErr:ctxCanceled", "BaseDoErr:na",
     "CBCircuitOpen", "CBTrackedStatusCode", "RetryRetriable", "RetryNonRetriable",
     "SingleflightErr"}

\* C25: a call that Do ended with an error has reported at least one of
\* BaseDoErr, CBCircuitOpen, CBTrackedStatusCode, RetryRetriable,
\* RetryNonRetriable and SingleflightErr, also when the error is the rejection
\* by the gate of the breaker.
C25_ErrorsReported ==
    \A c \in Calls :
        (pc[c] = "done" /\ ret[c].err # NilErr) => events[c] \cap DecisionEvents # {}

\* C26: every caller that reads the body of the response Do returned reads
\* the complete body, the callers that waited for the execution of another
\* call as well as the one that ran it and whoever reads first.
C26_EveryWaiterReadsBody ==
    \A c \in Calls : bodyGot[c] # "empty"

\* C27: once the client is initialized the threshold of the breaker is at
\* least 50; a configured threshold of 50 or more, exactly 50 included, is
\* the threshold in use and brings no warning, and a missing or lower one is
\* replaced by 80 with the warning of the threshold.
C27_ThresholdFloor ==
    once = "done" =>
        /\ settings.ErrorPercentThreshold >= minErrorThreshold
        /\ IF CircuitBreaker.ErrorPercentThreshold >= minErrorThreshold
           THEN /\ settings.ErrorPercentThreshold = CircuitBreaker.ErrorPercentThreshold
                /\ "using default 'error threshold' setting for circuit breaker" \notin warnings
           ELSE /\ settings.ErrorPercentThreshold = defaultErrorThreshold
                /\ "using default 'error threshold' setting for circuit breaker" \in warnings

\* the warnings of the settings other than the two timeouts
SettingWarnings ==
    {"name was not supplied.  Use of unique and informative names is strongly recommended",
     "using default 'max concurrent requests' setting for circuit breaker",
     "using default 'error threshold' setting for circuit breaker",
     "using default 'max attempts' setting for retries",
     "using default 'base retry delay' setting for retries",
     "using default 'max retry delay' setting for retries"}

\* C28: the initialization replaces each of the seven settings that is zero
\* or negative by its default (max attempts 3, base delay 10ms, max delay 1s,
\* max concurrent requests 10, error threshold 80, timeout 3s, connect
\* timeout 1s) and emits a warning for it; the three settings of the retries
\* count when Retries is configured.
C28_DefaultsWithWarning ==
    [][(once = "running" /\ once' = "done") =>
        /\ (~Retries.nil /\ Retries.MaxAttempts <= 0) =>
                /\ retrier'.MaxAttempts = defaultMaxAttempts
                /\ "using default 'max attempts' setting for retries" \in warnings'
        /\ (~Retries.nil /\ Retries.BaseDelay <= 0) =>
                /\ retrier'.BaseDelay = defaultBaseRetryDelay
                /\ "using default 'base retry delay' setting for retries" \in warnings'
        /\ (~Retries.nil /\ Retries.MaxDelay <= 0) =>
                /\ retrier'.MaxDelay = defaultMaxRetryDelay
                /\ "using default 'max retry delay' setting for retries" \in warnings'
        /\ CircuitBreaker.MaxConcurrentRequests <= 0 =>
                /\ settings'.MaxConcurrentRequests = defaultMaxConcurrentRequests
                /\ "using default 'max concurrent requests' setting for circuit breaker"
                       \in warnings'
        /\ CircuitBreaker.ErrorPercentThreshold <= 0 =>
                /\ settings'.ErrorPercentThreshold = defaultErrorThreshold
                /\ "using default 'error threshold' setting for circuit breaker" \in warnings'
        /\ Client.Timeout <= 0 =>
                /\ Client'.Timeout = defaultTimeout
                /\ warnings' \ SettingWarnings # {}
        /\ Client.ConnectTimeout <= 0 =>
                /\ Client'.ConnectTimeout = defaultConnectTimeout
                /\ warnings' \ SettingWarnings # {}]_vars

\* the delays the retrier was built with
EffectiveBaseDelay == getBaseDelay(Retries.BaseDelay).value

EffectiveMaxDelay == getMaxDelay(Retries.MaxDelay).value

Rejections == {ErrCircuitIsOpen, ErrCircuitMaxConcurrencyReached}

\* with no Retries an execution hands the breaker the result of one attempt
OneAttemptAsIs(c) ==
    LET r == doRequestFunc(HttpClientDo(outcome[c], 1)) IN
        /\ attempts[c] = 1
        /\ ret[c] = Pair(r.resp, r.err)

\* C30: a layer with no configuration passes the call on.  With no Retries
\* an execution makes one attempt and returns what the attempt returned;
\* with no Singleflight every arriving call runs its own execution; with no
\* CircuitBreaker configured no call gets a circuit-open or a
\* concurrency-limit error.
C30_AbsentLayersPassThrough ==
    [][\A c \in Calls :
        /\ (Retries.nil /\ Completes(c)) => OneAttemptAsIs(c)
        /\ (Singleflight.nil /\ Arrives(c)) => RunsAlone(c)
        /\ CircuitBreaker = ZeroBreaker => ret'[c].err \notin Rejections]_vars

\* C31: a call that waits for the execution of another call and whose own
\* context is cancelled or has expired leaves the wait with the error of its
\* context, and leaves it while the execution it waited for is still in
\* flight.
C31_WaiterCancellation ==
    [][\A c \in Calls :
        (pc[c] = "sf_wait" /\ ctx[c] # "live" /\ pc'[c] # "sf_wait") =>
            /\ ret'[c].err = CtxErr(ctx[c])
            /\ flight' = flight]_vars

\* C32: every call of Do that has begun returns to its caller, whatever the
\* other calls, the contexts, the remote and the breaker do.
C32_EveryCallReturns ==
    \A c \in Calls : (pc[c] \notin {"idle", "done"}) ~> (pc[c] = "done")

\* both calls have returned, one of them after a retried attempt and the
\* other released from its wait for that execution
C32_Witness ==
    \E c, d \in Calls :
        /\ pc[c] = "done"
        /\ pc[d] = "done"
        /\ origin[c] = d
        /\ "RetryRetriable" \in events[d]

====
